---- MODULE Spec2Model ----
(***************************************************************************)
(* A model of the read path of datumaro's YOLO plugin                      *)
(* (datumaro/plugins/yolo_format/extractor.py): the lazy, self-evicting    *)
(* subset indexes of YoloBaseExtractor, the record parsers of the          *)
(* detection and pose variants, and the label-id resolution of the         *)
(* YOLOv8 manifest dialects.                                               *)
(*                                                                         *)
(* Conventions.                                                            *)
(*  - A text token is a record [kind, v]: kind "int" is an integer literal *)
(*    of value v, kind "frac" is a decimal literal of value v/Den that     *)
(*    int() rejects and float() accepts, kind "bad" is a token neither     *)
(*    accepts.                                                             *)
(*  - A parsed float is kept exactly, as a number of units of 1/Den; a     *)
(*    pixel coordinate is kept as a number of units of 1/(2*Den) pixel,    *)
(*    so that the halving of w and h in the bbox decoder is exact.         *)
(*  - A Python exception is the field exc of a result record; "none" is a  *)
(*    normal return.                                                       *)
(***************************************************************************)
EXTENDS Integers, Sequences, FiniteSets, TLC

(* ------------------------------ bounds --------------------------------- *)
\* Items enumerated for the subset "train".
MaxItems == 3
\* Passes (generator runs of Subset.__iter__) the consumer starts.
MaxPasses == 2
\* Denominator of the decimal literals of the record fields.
Den == 2
\* Largest image side, in pixels.
MaxSide == 2

VARIABLES
    variant,      \* the extractor class: "yolo", "yolov8", "yolov8_pose"
    categories,   \* self._categories[AnnotationType.label]: sequence of names
    names,        \* self._config["names"] of the YOLOv8 manifest
    image_info,   \* self._image_info: item id -> size record
    fs,           \* the dataset tree: subset -> item id -> file and image
    policy,       \* the error policy: which hooks return and which raise
    items,        \* subset -> Subset.items, an insertion-ordered dict
    iter,         \* the running generator of Subset.__iter__, if any
    passes,       \* history: the finished passes, oldest first
    parsed,       \* history: subset -> id -> _parse_annotations calls
    item_errors,  \* history: subset -> id -> report_item_error calls
    ann_errors,   \* history: subset -> id -> report_annotation_error calls
    len_result,   \* the value of the last len(extractor) call
    kpt_shape,    \* self._config["kpt_shape"] of the pose manifest
    sub_labels,   \* the constructor's skeleton_sub_labels
    meta,         \* the side-car metadata file of the dataset root
    pose,         \* the pose extractor under construction and its categories
    probe         \* input and result of the pure operations under check

\* The dataset and the collaborators: fixed once the extractor is built.
envVars == <<variant, categories, names, image_info, fs, policy>>

\* The history the claims read.
histVars == <<passes, parsed, item_errors, ann_errors>>

\* The pose manifest, the constructor's hints and the extractor they give.
poseVars == <<kpt_shape, sub_labels, meta, pose>>

vars == <<envVars, items, iter, histVars, len_result, poseVars, probe>>

(* ------------------------------ tokens --------------------------------- *)
IntTok(v) == [kind |-> "int", v |-> v]

FracTok(v) == [kind |-> "frac", v |-> v]

BadTok == [kind |-> "bad", v |-> 0]

Ok(v) == [exc |-> "none", msg |-> "", val |-> v]

Raise(e, m) == [exc |-> e, msg |-> m, val |-> 0]

\* YoloExtractor._parse_field: cls(value), any failure re-raised as
\* InvalidAnnotationError.  field_name only feeds the message.
_parse_field(value, cls, field_name) ==
    IF cls = "int"
    THEN IF value.kind = "int" THEN Ok(value.v)
         ELSE Raise("InvalidAnnotationError", field_name)
    ELSE IF value.kind = "int" THEN Ok(value.v * Den)
         ELSE IF value.kind = "frac" THEN Ok(value.v)
         ELSE Raise("InvalidAnnotationError", field_name)

(* --------------------------- label resolution -------------------------- *)
\* LabelCategories.__contains__ for an integer: a dense id space 0..N-1.
LabelCategories_contains(cats, idx) == 0 <= idx /\ idx < Len(cats)

\* YoloExtractor._map_label_id
Yolo_map_label_id(label_id) ==
    LET p == _parse_field(label_id, "int", "bbox label id")
    IN  IF p.exc # "none" THEN p
        ELSE IF ~LabelCategories_contains(categories, p.val)
             THEN Raise("UndeclaredLabelError", "label")
             ELSE Ok(p.val)

\* The manifest's "names": a sequence (kind "list", vals the names) or a
\* mapping (kind "dict", keys in insertion order, vals[i] the name of keys[i]).
NamesList(vals) == [kind |-> "list", keys |-> <<>>, vals |-> vals]

NamesDict(keys, vals) == [kind |-> "dict", keys |-> keys, vals |-> vals]

RECURSIVE Insert(_, _)
Insert(k, s) ==
    IF s = <<>> THEN <<k>>
    ELSE IF k <= Head(s) THEN <<k>> \o s
    ELSE <<Head(s)>> \o Insert(k, Tail(s))

RECURSIVE sorted(_)
\* Python's sorted() on a sequence of integers.
sorted(s) == IF s = <<>> THEN <<>> ELSE Insert(Head(s), sorted(Tail(s)))

SeqRange(s) == {s[i] : i \in 1..Len(s)}

\* Zero-based position of x in s (x occurs in s).
IndexOf(s, x) == (CHOOSE i \in 1..Len(s) : s[i] = x) - 1

\* _label_mapping enumerating the keys as the manifest lists them.
label_mapping_unsorted(nm) ==
    IF nm.kind = "list"
    THEN [k \in 0..(Len(nm.vals) - 1) |-> k]
    ELSE [k \in SeqRange(nm.keys) |-> IndexOf(nm.keys, k)]

\* YOLOv8DetectionExtractor._label_mapping
_label_mapping(nm) ==
    IF nm.kind = "list"
    THEN [k \in 0..(Len(nm.vals) - 1) |-> k]
    ELSE [k \in SeqRange(nm.keys) |-> IndexOf(sorted(nm.keys), k)]

\* YOLOv8DetectionExtractor._map_label_id
YOLOv8_map_label_id(nm, ann_label_id) ==
    LET p == _parse_field(ann_label_id, "int", "label id")
    IN  IF p.exc # "none" THEN p
        ELSE IF nm.kind = "list"
             THEN IF p.val < 0 \/ p.val >= Len(nm.vals)
                  THEN Raise("UndeclaredLabelError", "label")
                  ELSE Ok(p.val)
             ELSE IF p.val \notin SeqRange(nm.keys)
                  THEN Raise("UndeclaredLabelError", "label")
                  ELSE Ok(_label_mapping(nm)[p.val])

\* YOLOv8DetectionExtractor._load_names_from_config_file
_load_names_from_config_file(nm) ==
    IF nm.kind = "dict"
    THEN [i \in 1..Len(nm.keys) |->
            nm.vals[CHOOSE j \in 1..Len(nm.keys) :
                        _label_mapping(nm)[nm.keys[j]] = i - 1]]
    ELSE nm.vals

\* The label resolution of the extractor class in use.
_map_label_id(label_id) ==
    IF variant = "yolo" THEN Yolo_map_label_id(label_id)
    ELSE YOLOv8_map_label_id(names, label_id)

(* ---------------------------- record parsers --------------------------- *)
Bbox(x, y, w, h, label) ==
    [type |-> "bbox", x |-> x, y |-> y, w |-> w, h |-> h, label |-> label]

\* Yolo_load_one_annotation subtracting the whole width and height from
\* the centre, not half of them.
Yolo_load_one_annotation_no_half(parts, image_height, image_width) ==
    IF Len(parts) # 5
    THEN Raise("InvalidAnnotationError", "field count")
    ELSE
    LET label_id == _map_label_id(parts[1])
        w == _parse_field(parts[4], "float", "bbox width")
        h == _parse_field(parts[5], "float", "bbox height")
        xc == _parse_field(parts[2], "float", "bbox center x")
        yc == _parse_field(parts[3], "float", "bbox center y")
    IN  IF label_id.exc # "none" THEN label_id
        ELSE IF w.exc # "none" THEN w
        ELSE IF h.exc # "none" THEN h
        ELSE IF xc.exc # "none" THEN xc
        ELSE IF yc.exc # "none" THEN yc
        ELSE Ok(Bbox((2 * xc.val - 2 * w.val) * image_width,
                     (2 * yc.val - 2 * h.val) * image_height,
                     2 * w.val * image_width,
                     2 * h.val * image_height,
                     label_id.val))

\* YoloExtractor._load_one_annotation: label, then w, h, xc, yc, each parse
\* raising at its first failure.  Floats are in units of 1/Den, so
\* xc - w * 0.5 is (2*xc - w) in units of 1/(2*Den).
Yolo_load_one_annotation(parts, image_height, image_width) ==
    IF Len(parts) # 5
    THEN Raise("InvalidAnnotationError", "field count")
    ELSE
    LET label_id == _map_label_id(parts[1])
        w == _parse_field(parts[4], "float", "bbox width")
        h == _parse_field(parts[5], "float", "bbox height")
        xc == _parse_field(parts[2], "float", "bbox center x")
        yc == _parse_field(parts[3], "float", "bbox center y")
    IN  IF label_id.exc # "none" THEN label_id
        ELSE IF w.exc # "none" THEN w
        ELSE IF h.exc # "none" THEN h
        ELSE IF xc.exc # "none" THEN xc
        ELSE IF yc.exc # "none" THEN yc
        ELSE Ok(Bbox((2 * xc.val - w.val) * image_width,
                     (2 * yc.val - h.val) * image_height,
                     2 * w.val * image_width,
                     2 * h.val * image_height,
                     label_id.val))

\* The record parser of the extractor class in use.
_load_one_annotation(parts, image_height, image_width) ==
    Yolo_load_one_annotation(parts, image_height, image_width)

(* ----------------------------- error policy ---------------------------- *)
\* error_policy.report_item_error: returns (the item is dropped) or raises
\* (the import is aborted); the raised error is none of those _get catches.
report_item_error(e, item_id) ==
    IF policy.item THEN "none" ELSE "ImportFail"

\* error_policy.report_annotation_error: returns (the record is dropped) or
\* raises (the import is aborted).
report_annotation_error(e, item_id) ==
    IF policy.annotation THEN "none" ELSE "ImportFail"

(* --------------------------- _parse_annotations ------------------------ *)
NoSize == [known |-> FALSE, h |-> 0, w |-> 0]

Size(h, w) == [known |-> TRUE, h |-> h, w |-> w]

ParseResult(exc, annotations, reports, size_used) ==
    [exc |-> exc, annotations |-> annotations, reports |-> reports,
     size_used |-> size_used]

RECURSIVE parse_lines_break(_, _, _, _, _)
\* parse_lines leaving the loop at the first record that fails.
parse_lines_break(lines, size, item_id, annotations, reports) ==
    IF lines = <<>> THEN ParseResult("none", annotations, reports, TRUE)
    ELSE CHOOSE out \in
           { IF r.exc = "none"
             THEN parse_lines_break(Tail(lines), size, item_id,
                                    Append(annotations, r.val), reports)
             ELSE IF report_annotation_error(r, item_id) = "none"
                  THEN ParseResult("none", annotations, reports + 1, TRUE)
                  ELSE ParseResult("ImportFail", annotations, reports + 1, TRUE)
             : r \in {_load_one_annotation(Head(lines), size.h, size.w)} } : TRUE

RECURSIVE parse_lines(_, _, _, _, _)
\* The loop of YoloExtractor._parse_annotations over the non-empty lines:
\* a record that fails is reported and, when the hook returns, skipped.
parse_lines(lines, size, item_id, annotations, reports) ==
    IF lines = <<>> THEN ParseResult("none", annotations, reports, TRUE)
    ELSE CHOOSE out \in
           { IF r.exc = "none"
             THEN parse_lines(Tail(lines), size, item_id,
                              Append(annotations, r.val), reports)
             ELSE IF report_annotation_error(r, item_id) = "none"
                  THEN parse_lines(Tail(lines), size, item_id,
                                   annotations, reports + 1)
                  ELSE ParseResult("ImportFail", annotations, reports + 1, TRUE)
             : r \in {_load_one_annotation(Head(lines), size.h, size.w)} } : TRUE

\* Yolo_parse_annotations with the YOLOv8 rule that a missing file is an
\* item without annotations.
Yolo_parse_annotations_missing_is_empty(image, anno, item_id) ==
    IF anno.st = "missing" THEN ParseResult("none", <<>>, 0, FALSE)
    ELSE IF anno.st = "unreadable" THEN ParseResult("IOError", <<>>, 0, FALSE)
    ELSE LET lines == SelectSeq(anno.lines, LAMBDA l : l # <<>>)
         IN  IF lines = <<>> THEN ParseResult("none", <<>>, 0, FALSE)
             ELSE IF ~image.size.known
                  THEN ParseResult("DatasetImportError", <<>>, 0, TRUE)
                  ELSE parse_lines(lines, image.size, item_id, <<>>, 0)

\* Yolo_parse_annotations asking for the image size before it looks at the
\* lines.
Yolo_parse_annotations_size_first(image, anno, item_id) ==
    IF anno.st = "missing" THEN ParseResult("FileNotFoundError", <<>>, 0, FALSE)
    ELSE IF anno.st = "unreadable" THEN ParseResult("IOError", <<>>, 0, FALSE)
    ELSE LET lines == SelectSeq(anno.lines, LAMBDA l : l # <<>>)
         IN  IF ~image.size.known
             THEN ParseResult("DatasetImportError", <<>>, 0, TRUE)
             ELSE parse_lines(lines, image.size, item_id, <<>>, 0)

\* YoloExtractor._parse_annotations.  anno is the annotation file at
\* _get_labels_path_from_image_path(image.path); a blank line is a record
\* of no tokens.
Yolo_parse_annotations(image, anno, item_id) ==
    IF anno.st = "missing" THEN ParseResult("FileNotFoundError", <<>>, 0, FALSE)
    ELSE IF anno.st = "unreadable" THEN ParseResult("IOError", <<>>, 0, FALSE)
    ELSE LET lines == SelectSeq(anno.lines, LAMBDA l : l # <<>>)
         IN  IF lines = <<>> THEN ParseResult("none", <<>>, 0, FALSE)
             ELSE IF ~image.size.known
                  THEN ParseResult("DatasetImportError", <<>>, 0, TRUE)
                  ELSE parse_lines(lines, image.size, item_id, <<>>, 0)

\* YOLOv8DetectionExtractor._parse_annotations
YOLOv8_parse_annotations(image, anno, item_id) ==
    IF anno.st = "missing" THEN ParseResult("none", <<>>, 0, FALSE)
    ELSE Yolo_parse_annotations(image, anno, item_id)

\* The _parse_annotations of the extractor class in use.
_parse_annotations(image, anno, item_id) ==
    IF variant = "yolo" THEN Yolo_parse_annotations(image, anno, item_id)
    ELSE YOLOv8_parse_annotations(image, anno, item_id)

(* ------------------------- insertion-ordered dict ---------------------- *)
\* A Python dict: the sequence of its entries in insertion order.
DictHas(d, k) == \E i \in 1..Len(d) : d[i].key = k

DictGet(d, k) == d[CHOOSE i \in 1..Len(d) : d[i].key = k].val

DictKeys(d) == [i \in 1..Len(d) |-> d[i].key]

\* d[k] = v: an existing key keeps its place, a new key goes last.
DictSet(d, k, v) ==
    IF DictHas(d, k)
    THEN [i \in 1..Len(d) |-> IF d[i].key = k THEN [key |-> k, val |-> v] ELSE d[i]]
    ELSE Append(d, [key |-> k, val |-> v])

\* subset.items.clear() in the place of the pop.
DictPop_clear(d, k) == <<>>

\* d.pop(k)
DictPop(d, k) == SelectSeq(d, LAMBDA e : e.key # k)

(* ------------------------------- facade -------------------------------- *)
Subsets == {"train", "val"}

LazyPath(subset_name, item_id) ==
    [kind |-> "str", dir |-> subset_name, stem |-> item_id]

DatasetItem(id, subset, media, annotations) ==
    [kind |-> "DatasetItem", id |-> id, subset |-> subset, media |-> media,
     annotations |-> annotations]

NoneItem == [kind |-> "None"]

GetResult(d, ret, exc, calls, item_reports, ann_reports, size_used) ==
    [items |-> d, ret |-> ret, exc |-> exc, calls |-> calls,
     item_reports |-> item_reports, ann_reports |-> ann_reports,
     size_used |-> size_used]

\* Image(path, size=image_size) when the side-car index knows the item,
\* else Image(path, data=loader), whose size is what the decoder finds.
MakeImage(item, item_id) ==
    LET image_size == image_info[item_id]
    IN  IF image_size.known
        THEN [dir |-> item.dir, stem |-> item.stem, size |-> image_size]
        ELSE [dir |-> item.dir, stem |-> item.stem,
              size |-> fs[item.dir][item.stem].image]

\* _get storing the failed read's None in the slot instead of evicting it.
_get_caches_failure(d, item_id, subset_name) ==
    LET item == DictGet(d, item_id)
    IN  IF item.kind # "str"
        THEN GetResult(d, item, "none", 0, 0, 0, FALSE)
        ELSE
        CHOOSE out \in
          { LET new == DatasetItem(item_id, subset_name, image, r.annotations)
            IN  IF r.exc = "none"
                THEN GetResult(DictSet(d, item_id, new), new, "none",
                               1, 0, r.reports, r.size_used)
                ELSE IF r.exc \in {"FileNotFoundError", "IOError",
                                   "DatasetImportError"}
                THEN IF report_item_error(r.exc, <<item_id, subset_name>>) = "none"
                     THEN GetResult(DictSet(d, item_id, NoneItem), NoneItem,
                                    "none", 1, 1, r.reports, r.size_used)
                     ELSE GetResult(d, NoneItem, "ImportFail",
                                    1, 1, r.reports, r.size_used)
                ELSE GetResult(d, NoneItem, r.exc, 1, 0, r.reports, r.size_used)
            : image \in {MakeImage(item, item_id)},
              r \in {_parse_annotations(MakeImage(item, item_id),
                                        fs[item.dir][item.stem].anno,
                                        <<item_id, subset_name>>)} } : TRUE

\* YoloBaseExtractor._get, on d = self._subsets[subset_name].items.
\* Returns the dict after the call, the returned item and what was reported.
_get(d, item_id, subset_name) ==
    LET item == DictGet(d, item_id)
    IN  IF item.kind # "str"
        THEN GetResult(d, item, "none", 0, 0, 0, FALSE)
        ELSE
        CHOOSE out \in
          { LET new == DatasetItem(item_id, subset_name, image, r.annotations)
            IN  IF r.exc = "none"
                THEN GetResult(DictSet(d, item_id, new), new, "none",
                               1, 0, r.reports, r.size_used)
                ELSE IF r.exc \in {"FileNotFoundError", "IOError",
                                   "DatasetImportError"}
                THEN IF report_item_error(r.exc, <<item_id, subset_name>>) = "none"
                     THEN GetResult(DictPop(d, item_id), NoneItem, "none",
                                    1, 1, r.reports, r.size_used)
                     ELSE GetResult(d, NoneItem, "ImportFail",
                                    1, 1, r.reports, r.size_used)
                ELSE GetResult(d, NoneItem, r.exc, 1, 0, r.reports, r.size_used)
            : image \in {MakeImage(item, item_id)},
              r \in {_parse_annotations(MakeImage(item, item_id),
                                        fs[item.dir][item.stem].anno,
                                        <<item_id, subset_name>>)} } : TRUE

\* The dict iterator's __next__: it raises once the dict's size differs
\* from the size it saw when it was created.
DictIterNext(d, it) ==
    IF Len(d) # it.used THEN "RuntimeError"
    ELSE IF it.pos >= Len(d) THEN "StopIteration"
    ELSE "key"

RECURSIVE Subset_iter_next(_, _, _, _)
\* Subset.__iter__, one resumption of the generator: it runs the loop
\* until it yields an item, is exhausted or raises.  calls are the _get
\* calls made on the way.
Subset_iter_next(d, it, subset_name, calls) ==
    LET n == DictIterNext(d, it)
    IN  IF n # "key"
        THEN [items |-> d, it |-> it, end |-> n, ret |-> NoneItem, calls |-> calls]
        ELSE
        CHOOSE out \in
          { LET it2 == [it EXCEPT !.pos = it.pos + 1]
                calls2 == Append(calls, [id |-> d[it.pos + 1].key, g |-> g])
            IN  IF g.exc # "none"
                THEN [items |-> g.items, it |-> it2, end |-> g.exc,
                      ret |-> NoneItem, calls |-> calls2]
                ELSE IF g.ret.kind # "None"
                THEN [items |-> g.items, it |-> it2, end |-> "yield",
                      ret |-> g.ret, calls |-> calls2]
                ELSE Subset_iter_next(g.items, it2, subset_name, calls2)
            : g \in {_get(d, d[it.pos + 1].key, subset_name)} } : TRUE

\* Subset.__len__
Subset_len(subset_name) == Len(items[subset_name])

RECURSIVE SumLen(_)
\* sum(len(s) for s in S)
SumLen(S) ==
    IF S = {} THEN 0
    ELSE LET x == CHOOSE y \in S : TRUE IN Subset_len(x) + SumLen(S \ {x})

\* The count as it was at construction: a cached __len__.
len_at_construction ==
    SumLen(Subsets)
    + Cardinality({<<s, i>> \in Subsets \X (1..MaxItems) :
                      item_errors[s][i] > 0 /\ ~DictHas(items[s], i)})

\* YoloBaseExtractor.__len__
__len__ == SumLen(Subsets)

(* ------------------------------ operations ----------------------------- *)
Ids == 1..MaxItems

Idle == [active |-> FALSE, subset |-> "train", pos |-> 0, used |-> 0,
         out |-> <<>>, start |-> <<>>]

\* How many of the calls of one resumption concern item_id, counted by f.
CallsOn(calls, item_id) == SelectSeq(calls, LAMBDA c : c.id = item_id)

\* The consumer calls iter(subset): a generator over the subset's dict.
StartPass(s) ==
    /\ ~iter.active
    /\ Len(passes) < MaxPasses
    /\ iter' = [active |-> TRUE, subset |-> s, pos |-> 0,
                used |-> Len(items[s]), out |-> <<>>,
                start |-> DictKeys(items[s])]
    /\ UNCHANGED <<envVars, items, histVars, len_result, poseVars, probe>>

\* The consumer calls next() on the generator.
IterNext ==
    /\ iter.active
    /\ \E s \in {iter.subset} :
       \E r \in {Subset_iter_next(items[s], iter, s, <<>>)} :
           /\ items' = [items EXCEPT ![s] = r.items]
           /\ parsed' = [parsed EXCEPT ![s] = [i \in Ids |->
                  IF CallsOn(r.calls, i) = <<>> THEN @[i]
                  ELSE @[i] + CallsOn(r.calls, i)[1].g.calls]]
           /\ item_errors' = [item_errors EXCEPT ![s] = [i \in Ids |->
                  IF CallsOn(r.calls, i) = <<>> THEN @[i]
                  ELSE @[i] + CallsOn(r.calls, i)[1].g.item_reports]]
           /\ ann_errors' = [ann_errors EXCEPT ![s] = [i \in Ids |->
                  IF CallsOn(r.calls, i) = <<>> THEN @[i]
                  ELSE @[i] + CallsOn(r.calls, i)[1].g.ann_reports]]
           /\ IF r.end = "yield"
              THEN /\ iter' = [r.it EXCEPT !.out =
                         Append(@, [id |-> r.ret.id,
                                    annotations |-> r.ret.annotations])]
                   /\ passes' = passes
              ELSE /\ iter' = Idle
                   /\ passes' = Append(passes,
                         [subset |-> s, out |-> iter.out, end |-> r.end,
                          start |-> iter.start])
    /\ UNCHANGED <<envVars, len_result, poseVars, probe>>

\* The consumer drops the generator it has resumed at least once, before
\* it ends.
Abandon ==
    /\ iter.active
    /\ iter.pos > 0
    /\ iter' = Idle
    /\ passes' = Append(passes, [subset |-> iter.subset, out |-> iter.out,
                                 end |-> "abandoned", start |-> iter.start])
    /\ UNCHANGED <<envVars, items, parsed, item_errors, ann_errors,
                   len_result, poseVars, probe>>

\* The consumer calls len(extractor).
CallLen ==
    /\ len_result' = __len__
    /\ UNCHANGED <<envVars, items, iter, histVars, poseVars, probe>>

Next ==
    \/ \E s \in Subsets : StartPass(s)
    \/ IterNext
    \/ Abandon
    \/ CallLen

(* ------------------------------- inputs -------------------------------- *)
File(lines) == [st |-> "ok", lines |-> lines]

MissingFile == [st |-> "missing", lines |-> <<>>]

UnreadableFile == [st |-> "unreadable", lines |-> <<>>]

\* "0 0.5 0.5 1 0.5" when Den = 2: a valid detection record.
OkRec == <<IntTok(0), FracTok(1), FracTok(1), IntTok(1), FracTok(1)>>

\* A valid detection record of the second label.
OkRec2 == <<IntTok(1), IntTok(0), FracTok(1), FracTok(1), IntTok(1)>>

\* Six fields.
LongRec == OkRec \o <<IntTok(0)>>

ItemInputs ==
    { [anno |-> MissingFile, image |-> Size(2, 1)],
      [anno |-> File(<<LongRec, OkRec2>>), image |-> Size(2, 1)],
      [anno |-> File(<<OkRec>>), image |-> NoSize] }

ValInputs ==
    { [anno |-> MissingFile, image |-> Size(2, 1)],
      [anno |-> File(<<OkRec>>), image |-> Size(2, 1)] }

Policies == [item : BOOLEAN, annotation : BOOLEAN]

NoProbe == [op |-> "none"]

\* No pose manifest, hints or metadata: the extractor is not a pose one.
NoPose ==
    /\ kpt_shape = [kind |-> "missing", elems |-> <<>>]
    /\ sub_labels = [given |-> FALSE, of |-> <<>>]
    /\ meta = [present |-> FALSE, label_categories |-> <<>>,
               point_categories |-> <<>>]
    /\ pose = [status |-> "none", labels |-> <<>>, points |-> <<>>]

Zero == [s \in Subsets |-> [i \in Ids |-> 0]]

\* The index _get_lazy_subset_items builds: every id bound to its path.
LazyIndex(subset_name, ids) ==
    [i \in 1..Len(ids) |->
        [key |-> ids[i], val |-> LazyPath(subset_name, ids[i])]]

\* The state after YoloBaseExtractor.__init__: "train" holds the items
\* 1..MaxItems, "val" an item of the same id as the first of "train"; the
\* side-car size index knows item 1 only.
Init ==
    /\ variant \in {"yolo", "yolov8"}
    /\ categories = <<"cat", "dog">>
    /\ names = NamesList(categories)
    /\ image_info = [i \in Ids |-> IF i = 1 THEN Size(2, 1) ELSE NoSize]
    /\ \E tr \in [Ids -> ItemInputs], v \in ValInputs :
          fs = [s \in Subsets |->
                  IF s = "train" THEN tr ELSE [i \in Ids |-> v]]
    /\ policy \in Policies
    /\ items = [s \in Subsets |->
                  IF s = "train" THEN LazyIndex(s, [i \in Ids |-> i])
                  ELSE LazyIndex(s, <<1>>)]
    /\ iter = Idle
    /\ passes = <<>>
    /\ parsed = Zero
    /\ item_errors = Zero
    /\ ann_errors = Zero
    /\ len_result = __len__
    /\ NoPose
    /\ probe = NoProbe

Spec == Init /\ [][Next]_vars

\* Four fields.
ShortRec == SubSeq(OkRec, 1, 4)

\* A field float() rejects.
BadFieldRec == <<IntTok(0), FracTok(1), BadTok, IntTok(1), FracTok(1)>>

\* A label past the last category.
UndeclaredRec == <<IntTok(2), FracTok(1), FracTok(1), IntTok(1), IntTok(1)>>

ParseRecs == {<<>>, OkRec, OkRec2, LongRec, ShortRec, BadFieldRec,
              UndeclaredRec}

\* The sequences over S of length at most n.
SeqsUpTo(S, n) == UNION {[1..k -> S] : k \in 0..n}

\* Records per annotation file.
MaxRecords == 2

ParseFiles ==
    {MissingFile, UnreadableFile} \cup {File(l) : l \in SeqsUpTo(ParseRecs, MaxRecords)}

\* Where the size of an image is known from: the side-car index, the
\* decoder, or nowhere.
SizeSources ==
    { [info |-> Size(2, 1), image |-> NoSize],
      [info |-> NoSize, image |-> Size(2, 1)],
      [info |-> NoSize, image |-> NoSize] }

\* One indexed item, "train"/1, with any annotation file of ParseFiles and
\* any source of the image size, under a policy that tolerates item-level
\* failures.
InitParse ==
    /\ variant \in {"yolo", "yolov8"}
    /\ categories = <<"cat", "dog">>
    /\ names = NamesList(categories)
    /\ \E f \in ParseFiles, src \in SizeSources :
          /\ image_info = [i \in Ids |-> src.info]
          /\ fs = [s \in Subsets |->
                     [i \in Ids |-> [anno |-> f, image |-> src.image]]]
    /\ policy \in {p \in Policies : p.item}
    /\ items = [s \in Subsets |->
                  IF s = "train" THEN LazyIndex(s, <<1>>) ELSE <<>>]
    /\ iter = Idle
    /\ passes = <<>>
    /\ parsed = Zero
    /\ item_errors = Zero
    /\ ann_errors = Zero
    /\ len_result = __len__
    /\ NoPose
    /\ probe = NoProbe

SpecParse == InitParse /\ [][Next]_vars

(* ------------------------------- pose ---------------------------------- *)
\* A YAML scalar of the manifest: an integer or something else.
YamlInt(v) == [t |-> "int", v |-> v]

YamlStr == [t |-> "str", v |-> 0]

\* The manifest's "kpt_shape": absent, a scalar, or a list of scalars.
KptMissing == [kind |-> "missing", elems |-> <<>>]

KptScalar == [kind |-> "scalar", elems |-> <<>>]

KptList(e) == [kind |-> "list", elems |-> e]

\* YOLOv8PoseExtractor._kpt_shape: [pointCount, valuesPerPoint], or the
\* InvalidAnnotationError of the first check that fails.
_kpt_shape(kv) ==
    IF kv.kind = "missing" THEN Raise("InvalidAnnotationError", "kpt_shape")
    ELSE IF kv.kind # "list" \/ Len(kv.elems) # 2
    THEN Raise("InvalidAnnotationError", "kpt_shape")
    ELSE IF ~(kv.elems[2].t = "int" /\ kv.elems[2].v \in {2, 3})
    THEN Raise("InvalidAnnotationError", "kpt_shape")
    ELSE IF kv.elems[1].t # "int" \/ kv.elems[1].v < 0
    THEN Raise("InvalidAnnotationError", "kpt_shape")
    ELSE Ok(<<kv.elems[1].v, kv.elems[2].v>>)

\* f"{skeleton_label}_point_{point_index}", point_index from 0.
AutoNames ==
    [cat |-> <<"cat_point_0", "cat_point_1", "cat_point_2", "cat_point_3", "cat_point_4">>,
     dog |-> <<"dog_point_0", "dog_point_1", "dog_point_2", "dog_point_3", "dog_point_4">>,
     fox |-> <<"fox_point_0", "fox_point_1", "fox_point_2", "fox_point_3", "fox_point_4">>,
     owl |-> <<"owl_point_0", "owl_point_1", "owl_point_2", "owl_point_3", "owl_point_4">>]

\* The names a caller may give to the points of a skeleton.
HintNames ==
    [cat |-> <<"cat_head", "cat_neck", "cat_tail", "cat_paw", "cat_ear">>,
     dog |-> <<"dog_head", "dog_neck", "dog_tail", "dog_paw", "dog_ear">>,
     fox |-> <<"fox_head", "fox_neck", "fox_tail", "fox_paw", "fox_ear">>,
     owl |-> <<"owl_head", "owl_neck", "owl_tail", "owl_paw", "owl_ear">>]

\* A label category: a name and, for a point's label, its skeleton.
LabelCat(name, parent) == [name |-> name, parent |-> parent]

RECURSIVE Flatten(_)
\* The concatenation of a sequence of sequences.
Flatten(ss) == IF ss = <<>> THEN <<>> ELSE Head(ss) \o Flatten(Tail(ss))

Categories(exc, labels, points) ==
    [exc |-> exc, labels |-> labels, points |-> points]

\* YOLOv8PoseExtractor._load_categories_from_meta_file: the categories are
\* what the side-car metadata lists.
_load_categories_from_meta_file ==
    Categories("none", meta.label_categories, meta.point_categories)

\* The hints count when the mapping is given and not empty.
Hinted == sub_labels.given /\ DOMAIN sub_labels.of # {}

\* YOLOv8PoseExtractor._load_categories.  labels is the LabelCategories
\* (skeleton labels, then the point labels with their parent), points the
\* PointsCategories (skeleton id -> its point names).
Pose_load_categories ==
    IF names.kind = "missing"
    THEN Categories("InvalidAnnotationError", <<>>, <<>>)
    ELSE IF meta.present THEN _load_categories_from_meta_file
    ELSE IF _kpt_shape(kpt_shape).exc # "none"
    THEN Categories("InvalidAnnotationError", <<>>, <<>>)
    ELSE
    LET max_number_of_points == _kpt_shape(kpt_shape).val[1]
        skeleton_labels == _load_names_from_config_file(names)
        auto == [sk \in SeqRange(skeleton_labels) |->
                    SubSeq(AutoNames[sk], 1, max_number_of_points)]
        children_labels == IF Hinted THEN sub_labels.of ELSE auto
    IN  IF Hinted /\ SeqRange(skeleton_labels) \ DOMAIN sub_labels.of # {}
        THEN Categories("InvalidAnnotationError", <<>>, <<>>)
        ELSE IF Hinted /\ \E sk \in SeqRange(skeleton_labels) :
                             Len(sub_labels.of[sk]) > max_number_of_points
        THEN Categories("InvalidAnnotationError", <<>>, <<>>)
        ELSE Categories("none",
               [k \in 1..Len(skeleton_labels) |-> LabelCat(skeleton_labels[k], "")]
               \o Flatten([k \in 1..Len(skeleton_labels) |->
                     [j \in 1..Len(children_labels[skeleton_labels[k]]) |->
                        LabelCat(children_labels[skeleton_labels[k]][j],
                                 skeleton_labels[k])]]),
               [id \in 0..(Len(skeleton_labels) - 1) |->
                     children_labels[skeleton_labels[id + 1]]])

\* The keys of a function, ascending.
RECURSIVE SortedSet(_)
SortedSet(S) ==
    IF S = {} THEN <<>>
    ELSE LET m == CHOOSE x \in S : \A y \in S : x <= y
         IN  <<m>> \o SortedSet(S \ {m})

\* YOLOv8PoseExtractor._skeleton_id_to_label_id: the i-th skeleton is the
\* i-th smallest key of the point categories.
_skeleton_id_to_label_id ==
    [index \in 0..(Cardinality(DOMAIN pose.points) - 1) |->
        SortedSet(DOMAIN pose.points)[index + 1]]

\* YOLOv8PoseExtractor._map_label_id
Pose_map_label_id(ann_label_id) ==
    LET skeleton_id == YOLOv8_map_label_id(names, ann_label_id)
    IN  IF skeleton_id.exc # "none" THEN skeleton_id
        ELSE IF skeleton_id.val \notin DOMAIN _skeleton_id_to_label_id
        THEN Raise("KeyError", "skeleton id")
        ELSE Ok(_skeleton_id_to_label_id[skeleton_id.val])

\* LabelCategories.find(name, parent)[0]: the id of the label of that
\* name under that parent, or -1 for None.
LabelCategories_find(labels, name, parent) ==
    IF \E k \in 1..Len(labels) : labels[k] = LabelCat(name, parent)
    THEN (CHOOSE k \in 1..Len(labels) : labels[k] = LabelCat(name, parent)) - 1
    ELSE -1

Points(x, y, visibility, label) ==
    [type |-> "points", x |-> x, y |-> y, visibility |-> visibility,
     label |-> label]

Skeleton(points, label) == [type |-> "skeleton", points |-> points, label |-> label]

\* Points.Visibility.visible.value
Visible == 2

\* PosePoint with x scaled by the height and y by the width.
PosePoint_swapped_scale(parts, point_index, values_per_point, label_id, image_height, image_width) ==
    IF 5 + point_index * values_per_point + 2 > Len(parts)
    THEN Raise("IndexError", "y")
    ELSE IF parts[5 + point_index * values_per_point + 1].kind = "bad"
            \/ parts[5 + point_index * values_per_point + 2].kind = "bad"
    THEN Raise("InvalidAnnotationError", "x")
    ELSE Ok([type |-> "points",
             x |-> _parse_field(parts[5 + point_index * values_per_point + 1],
                                "float", "x").val * image_height,
             y |-> _parse_field(parts[5 + point_index * values_per_point + 2],
                                "float", "y").val * image_width,
             visibility |-> IF values_per_point = 3
                            THEN parts[5 + point_index * values_per_point + 3].v
                            ELSE 2,
             label |-> label_id])

\* One element of the list of Points of _load_one_annotation: point_index
\* from 0, parts indexed from 0 as in the source.  A field past the end of
\* the record is an IndexError.
PosePoint(parts, point_index, values_per_point, label_id, image_height, image_width) ==
    LET x_index == 5 + point_index * values_per_point
        y_index == x_index + 1
        visibility_index == x_index + 2
        last == IF values_per_point = 3 THEN visibility_index ELSE y_index
    IN  IF x_index + 1 > Len(parts) THEN Raise("IndexError", "x")
        ELSE IF _parse_field(parts[x_index + 1], "float", "x").exc # "none"
        THEN _parse_field(parts[x_index + 1], "float", "x")
        ELSE IF y_index + 1 > Len(parts) THEN Raise("IndexError", "y")
        ELSE IF _parse_field(parts[y_index + 1], "float", "y").exc # "none"
        THEN _parse_field(parts[y_index + 1], "float", "y")
        ELSE IF values_per_point = 3 /\ visibility_index + 1 > Len(parts)
        THEN Raise("IndexError", "visibility")
        ELSE IF values_per_point = 3
                /\ _parse_field(parts[visibility_index + 1], "int", "visibility").exc # "none"
        THEN _parse_field(parts[visibility_index + 1], "int", "visibility")
        ELSE Ok(Points(
                _parse_field(parts[x_index + 1], "float", "x").val * image_width,
                _parse_field(parts[y_index + 1], "float", "y").val * image_height,
                IF values_per_point = 3
                THEN _parse_field(parts[visibility_index + 1], "int", "visibility").val
                ELSE Visible,
                label_id))

\* The index of the first failed element of a sequence of results, or 0.
FirstFailure(rs) ==
    IF \E k \in 1..Len(rs) : rs[k].exc # "none"
    THEN CHOOSE k \in 1..Len(rs) :
            rs[k].exc # "none" /\ \A j \in 1..(k - 1) : rs[j].exc = "none"
    ELSE 0

\* YOLOv8PoseExtractor._load_one_annotation
Pose_load_one_annotation(parts, image_height, image_width) ==
    IF _kpt_shape(kpt_shape).exc # "none" THEN _kpt_shape(kpt_shape)
    ELSE
    LET max_number_of_points == _kpt_shape(kpt_shape).val[1]
        values_per_point == _kpt_shape(kpt_shape).val[2]
        label_id == Pose_map_label_id(parts[1])
    IN  IF Len(parts) # 5 + max_number_of_points * values_per_point
        THEN Raise("InvalidAnnotationError", "field count")
        ELSE IF label_id.exc # "none" THEN label_id
        ELSE IF label_id.val \notin DOMAIN pose.points
        THEN Raise("KeyError", "point categories")
        ELSE
        LET point_labels == pose.points[label_id.val]
        IN  IF point_labels # <<>> /\ label_id.val + 1 > Len(pose.labels)
            THEN Raise("IndexError", "label categories")
            ELSE
            LET point_label_ids ==
                    [k \in 1..Len(point_labels) |->
                        LabelCategories_find(pose.labels, point_labels[k],
                                             pose.labels[label_id.val + 1].name)]
                points == [k \in 1..Len(point_labels) |->
                             PosePoint(parts, k - 1, values_per_point,
                                       point_label_ids[k],
                                       image_height, image_width)]
            IN  IF FirstFailure(points) # 0 THEN points[FirstFailure(points)]
                ELSE Ok(Skeleton([k \in 1..Len(points) |-> points[k].val],
                                 label_id.val))

(* ---------------------- the pure operations, applied ------------------ *)
\* No dataset is read: the indexes are empty and stay so.
NoFacade ==
    /\ image_info = [i \in Ids |-> NoSize]
    /\ fs = [s \in Subsets |->
               [i \in Ids |-> [anno |-> MissingFile, image |-> NoSize]]]
    /\ policy = [item |-> TRUE, annotation |-> TRUE]
    /\ items = [s \in Subsets |-> <<>>]
    /\ iter = Idle
    /\ passes = <<>>
    /\ parsed = Zero
    /\ item_errors = Zero
    /\ ann_errors = Zero
    /\ len_result = 0

\* Entries of the manifest's "names".
MaxNames == 3

AllNames == <<"cat", "dog", "fox", "owl", "yak", "emu">>

\* The sequences over S of length at most n without a repeated element.
InjSeqsUpTo(S, n) ==
    {q \in SeqsUpTo(S, n) : \A j, k \in 1..Len(q) : q[j] = q[k] => j = k}

\* The manifests' "names": every list of up to MaxNames names and every
\* mapping of up to MaxNames integer keys, in any insertion order.
NamesInputs ==
    {NamesList(SubSeq(AllNames, 1, k)) : k \in 0..MaxNames}
    \cup {NamesDict(q, SubSeq(AllNames, 1, Len(q))) :
            q \in InjSeqsUpTo(-1..(MaxNames + 1), MaxNames)}

\* The label tokens: integers around the id space, a decimal, a word.
LabelToks ==
    {IntTok(t) : t \in -2..(MaxNames + 2)} \cup {FracTok(1), BadTok}

\* A YOLOv8 extractor over some manifest, about to resolve a label token.
InitLabel ==
    /\ variant = "yolov8"
    /\ names \in NamesInputs
    /\ categories = _load_names_from_config_file(names)
    /\ NoFacade
    /\ NoPose
    /\ probe \in {[op |-> "label", tok |-> t] : t \in LabelToks}

\* self._map_label_id(token), beside the categories _load_categories built.
MapLabel ==
    /\ probe.op = "label"
    /\ probe' = [op |-> "label_done", tok |-> probe.tok,
                 out |-> YOLOv8_map_label_id(names, probe.tok)]
    /\ UNCHANGED <<envVars, items, iter, histVars, len_result, poseVars>>

NextLabel == MapLabel

SpecLabel == InitLabel /\ [][NextLabel]_vars

\* The tokens of a coordinate field: the decimals k/Den of [0, 1], an
\* integer, a word.
CoordToks == {FracTok(k) : k \in 0..Den} \cup {IntTok(1), BadTok}

\* The detection records: four to six fields, any label and coordinates.
BboxRecords ==
    {SubSeq(<<l, xc, yc, w, h, IntTok(0)>>, 1, n) :
        l \in {IntTok(0), IntTok(1), IntTok(2), BadTok},
        xc \in CoordToks, yc \in CoordToks, w \in CoordToks, h \in CoordToks,
        n \in 4..6}

\* A YoloExtractor of two categories, about to decode one record of an
\* image of some size.
InitBbox ==
    /\ variant = "yolo"
    /\ categories = <<"cat", "dog">>
    /\ names = NamesList(categories)
    /\ NoFacade
    /\ NoPose
    /\ probe \in {[op |-> "bbox", parts |-> r, h |-> ih, w |-> iw] :
                     r \in BboxRecords, ih \in 1..MaxSide, iw \in 1..MaxSide}

\* self._load_one_annotation(parts, image_height, image_width)
LoadOne ==
    /\ probe.op = "bbox"
    /\ probe' = [op |-> "bbox_done", parts |-> probe.parts, h |-> probe.h,
                 w |-> probe.w,
                 out |-> _load_one_annotation(probe.parts, probe.h, probe.w)]
    /\ UNCHANGED <<envVars, items, iter, histVars, len_result, poseVars>>

NextBbox == LoadOne

SpecBbox == InitBbox /\ [][NextBbox]_vars

(* ---------------------------- pose, applied ---------------------------- *)
MaxSkeletons == 2

MaxPoints == 2

\* The size of the image the pose records are read against.
PoseHeight == 1

PoseWidth == 2

\* YOLOv8PoseExtractor.__init__: the categories are loaded while the
\* extractor is constructed; a failure leaves no extractor.
Construct ==
    /\ pose.status = "todo"
    /\ \E c \in {Pose_load_categories} :
          pose' = IF c.exc = "none"
                  THEN [status |-> "built", labels |-> c.labels, points |-> c.points]
                  ELSE [status |-> "failed", labels |-> <<>>, points |-> <<>>]
    /\ UNCHANGED <<envVars, items, iter, histVars, len_result,
                   kpt_shape, sub_labels, meta, probe>>

\* The record of that length whose label token is l: the box fields do
\* not parse, the field at position bad (from 1; 0 for none) does not
\* parse, and every other point field differs from its neighbours.
PoseRecord(l, len, bad, values_per_point) ==
    [k \in 1..len |->
        IF k = 1 THEN l
        ELSE IF k <= 5 \/ k = bad THEN BadTok
        ELSE IF values_per_point = 3 /\ (k - 6) % 3 = 2 THEN IntTok(k % 3)
        ELSE FracTok(k % (Den + 1))]

PoseLabelToks == {IntTok(t) : t \in 0..MaxSkeletons} \cup {BadTok}

\* The records tried against an extractor: right and wrong field counts,
\* every label token, and at most one point field that does not parse.
PoseRecords ==
    LET shape == _kpt_shape(kpt_shape)
        n == IF shape.exc = "none" THEN shape.val[1] ELSE 1
        v == IF shape.exc = "none" THEN shape.val[2] ELSE 2
    IN  {PoseRecord(l, len, bad, v) :
            l \in PoseLabelToks,
            len \in (4 + n * v)..(6 + n * v),
            bad \in {0} \cup (6..(6 + n * v))}

\* self._load_one_annotation(parts, image_height, image_width) on one
\* record of a label file.
PoseLoadOne ==
    /\ pose.status = "built"
    /\ probe.op = "pose"
    /\ \E rec \in PoseRecords :
          \E out \in {Pose_load_one_annotation(rec, PoseHeight, PoseWidth)} :
             probe' = [op |-> "pose_done", parts |-> rec, out |-> out]
    /\ UNCHANGED <<envVars, items, iter, histVars, len_result, poseVars>>

NextPose == Construct \/ PoseLoadOne

NamesMissing == [kind |-> "missing", keys |-> <<>>, vals |-> <<>>]

\* "names" of the manifest: absent, a list of skeleton names, or a
\* mapping whose keys are not in order.
PoseNamesInputs ==
    {NamesMissing, NamesDict(<<1, 0>>, <<"cat", "dog">>)}
    \cup {NamesList(SubSeq(AllNames, 1, k)) : k \in 1..MaxSkeletons}

\* "kpt_shape" of the manifest: absent, not a list, lists of the wrong
\* length or with an element that is no integer, and the integer pairs
\* around the valid ones.
KptInputs ==
    {KptMissing, KptScalar,
     KptList(<<YamlInt(1)>>),
     KptList(<<YamlInt(1), YamlInt(2), YamlInt(3)>>),
     KptList(<<YamlStr, YamlInt(2)>>),
     KptList(<<YamlInt(1), YamlStr>>)}
    \cup {KptList(<<YamlInt(n), YamlInt(v)>>) : n \in (-1)..MaxPoints, v \in 1..3}

NoHints == [given |-> FALSE, of |-> <<>>]

\* skeleton_sub_labels: None, or a mapping over some of the first two
\* skeletons; the first gets up to one name too many.
SubLabelInputs ==
    {NoHints}
    \cup {[given |-> TRUE, of |-> [sk \in D |->
              IF sk = "cat" THEN SubSeq(HintNames[sk], 1, m)
              ELSE SubSeq(HintNames[sk], 1, MaxPoints)]] :
            D \in SUBSET {"cat", "dog"}, m \in 0..(MaxPoints + 1)}

NoMeta == [present |-> FALSE, label_categories |-> <<>>, point_categories |-> <<>>]

\* dataset_meta.json: absent, or one of two exported category sets.
MetaInputs ==
    {NoMeta,
     [present |-> TRUE,
      label_categories |-> <<LabelCat("cat", ""), LabelCat("cat_point_0", "cat")>>,
      point_categories |-> [id \in {0} |-> <<"cat_point_0">>]],
     [present |-> TRUE,
      label_categories |-> <<LabelCat("bg", ""), LabelCat("cat", ""),
                             LabelCat("a", "cat"), LabelCat("b", "cat"),
                             LabelCat("c", "cat")>>,
      point_categories |-> [id \in {1} |-> <<"a", "b", "c">>]]}

\* A pose dataset on disk and the caller's hints, before construction.
InitPose ==
    /\ variant = "yolov8_pose"
    /\ names \in PoseNamesInputs
    /\ categories = <<>>
    /\ NoFacade
    /\ kpt_shape \in KptInputs
    /\ sub_labels \in SubLabelInputs
    /\ meta \in MetaInputs
    /\ pose = [status |-> "todo", labels |-> <<>>, points |-> <<>>]
    /\ probe = [op |-> "pose"]

SpecPose == InitPose /\ [][NextPose]_vars

(* ------------------------------- paths --------------------------------- *)
\* A path is the sequence of its segments; a segment is a name and the
\* extension os.path.splitext would find in it.
Seg(stem, ext) == [stem |-> stem, ext |-> ext]

\* The segment ".".
CurDir == Seg(".", "")

\* os.path.normpath of a relative path without "..": the "." segments
\* go, and the empty path is ".".
normpath(path) ==
    IF SelectSeq(path, LAMBDA g : g # CurDir) = <<>> THEN <<CurDir>>
    ELSE SelectSeq(path, LAMBDA g : g # CurDir)

\* os.path.splitext(path)[0]: the extension of the last segment goes.
splitext(path) ==
    [k \in 1..Len(path) |->
        IF k = Len(path) THEN Seg(path[k].stem, "") ELSE path[k]]

\* localize_path that keeps the "data/" prefix.
localize_path_keeps_prefix(path) == normpath(path)

\* YoloExtractor.localize_path: path.startswith("data/") holds when the
\* first segment is "data" and another follows.
localize_path(path) ==
    IF Len(normpath(path)) >= 2 /\ normpath(path)[1] = Seg("data", "")
    THEN Tail(normpath(path))
    ELSE normpath(path)

\* YoloExtractor.name_from_path, for a relative path.
Yolo_name_from_path(path) ==
    LET parts == localize_path(path)
    IN  IF 1 < Len(parts) THEN splitext(SubSeq(parts, 2, Len(parts)))
        ELSE splitext(parts)

\* YOLOv8DetectionExtractor.name_from_path, for a relative path.
YOLOv8_name_from_path(path) ==
    LET parts == localize_path(path)
    IN  IF 2 < Len(parts) THEN splitext(SubSeq(parts, 3, Len(parts)))
        ELSE splitext(parts)

\* cls.name_from_path of the extractor class in use.
name_from_path(path) ==
    IF variant = "yolo" THEN Yolo_name_from_path(path)
    ELSE YOLOv8_name_from_path(path)

MaxSegments == 4

\* The segments the paths are made of: the prefix, wrappers, a nested
\* directory, a directory with a dot in its name, an image file and ".".
PathSegs ==
    {Seg("data", ""), Seg("images", ""), Seg("train", ""), Seg("a", ""),
     Seg("v1", ".2"), Seg("img", ".jpg"), CurDir}

PathInputs == UNION {[1..n -> PathSegs] : n \in 1..MaxSegments}

\* A line of a subset list, about to be turned into an item id.
InitName ==
    /\ variant \in {"yolo", "yolov8"}
    /\ categories = <<"cat", "dog">>
    /\ names = NamesList(categories)
    /\ NoFacade
    /\ NoPose
    /\ probe \in {[op |-> "name", path |-> p] : p \in PathInputs}

\* self.name_from_path(p)
NameFromPath ==
    /\ probe.op = "name"
    /\ probe' = [op |-> "name_done", path |-> probe.path,
                 out |-> name_from_path(probe.path)]
    /\ UNCHANGED <<envVars, items, iter, histVars, len_result, poseVars>>

NextName == NameFromPath

SpecName == InitName /\ [][NextName]_vars

(* ------------------------------ the index ------------------------------ *)
\* name_from_path of the listed path "<dir>_obj/<stem>.jpg": the wrapper
\* and the extension go, the stem is the id.
IndexName(p) == p.stem

RECURSIVE DictFromPairs(_, _)
\* The dict comprehension {name_from_path(p): localize_path(p) for p in
\* paths}, entry after entry.
DictFromPairs(paths, d) ==
    IF paths = <<>> THEN d
    ELSE DictFromPairs(Tail(paths), DictSet(d, IndexName(Head(paths)), Head(paths)))

RECURSIVE lazy_subset_items_first_wins(_)
\* An index that keeps the first path of an id.
lazy_subset_items_first_wins(paths) ==
    IF paths = <<>> THEN <<>>
    ELSE LET d == lazy_subset_items_first_wins(SubSeq(paths, 1, Len(paths) - 1))
             p == paths[Len(paths)]
         IN  IF DictHas(d, IndexName(p)) THEN d
             ELSE Append(d, [key |-> IndexName(p), val |-> p])

\* YoloExtractor._get_lazy_subset_items, on the paths the subset's list
\* enumerates.
_get_lazy_subset_items(paths) == DictFromPairs(paths, <<>>)

MaxPaths == 3

\* Two ids, each listed under either directory.
ListedPaths == {LazyPath(d, i) : d \in Subsets, i \in {1, 2}}

Listings == UNION {[1..n -> ListedPaths] : n \in 1..MaxPaths}

\* An extractor whose "train" list names some id more than once; the
\* label file of train/2 is fine, the one of val/2 is missing.
InitIndex ==
    /\ variant = "yolo"
    /\ categories = <<"cat", "dog">>
    /\ names = NamesList(categories)
    /\ image_info = [i \in Ids |-> NoSize]
    /\ fs = [s \in Subsets |-> [i \in Ids |->
               [anno |-> IF s = "val" /\ i = 2 THEN MissingFile
                         ELSE File(<<OkRec>>),
                image |-> Size(2, 1)]]]
    /\ policy \in {p \in Policies : p.annotation}
    /\ probe \in {[op |-> "index", paths |-> l] : l \in Listings}
    /\ items = [s \in Subsets |->
                  IF s = "train" THEN _get_lazy_subset_items(probe.paths)
                  ELSE LazyIndex(s, <<1>>)]
    /\ iter = Idle
    /\ passes = <<>>
    /\ parsed = Zero
    /\ item_errors = Zero
    /\ ann_errors = Zero
    /\ len_result = __len__
    /\ NoPose

SpecIndex == InitIndex /\ [][Next]_vars

(* --------------------------- classification ---------------------------- *)
\* YOLOv8ClassificationFormat.IMAGE_DIR_NO_LABEL
NoLabel == "no_label"

\* The label names of the datasets, in the order sorted() gives strings.
ClsNames == <<"ant", "bee", "no_label", "owl">>

RECURSIVE SortedNames(_)
\* sorted(categories) for a set of label names.
SortedNames(S) ==
    IF S = {} THEN <<>>
    ELSE LET m == CHOOSE x \in S : \A y \in S : IndexOf(ClsNames, x) <= IndexOf(ClsNames, y)
         IN  <<m>> \o SortedNames(S \ {m})

\* A subset directory: its label directories and its per-item registry
\* (the parsed labels file, None without the file).
ClsSubset(dirs, registry) == [dirs |-> dirs, registry |-> registry]

NoRegistry == [present |-> FALSE, entries |-> <<>>]

Registry(entries) == [present |-> TRUE, entries |-> entries]

\* "if item_info := ...": the registry counts when the file is there and
\* the parsed mapping is not empty.
HasItemInfo(sub) == sub.registry.present /\ sub.registry.entries # <<>>

\* item_info[item_id]
ItemInfo(sub, item_id) ==
    sub.registry.entries[CHOOSE k \in 1..Len(sub.registry.entries) :
                            sub.registry.entries[k].id = item_id]

\* YOLOv8ClassificationExtractor._load_categories over the subset
\* directories of the dataset.
Cls_load_categories(ds) ==
    SortedNames(UNION {
        (IF HasItemInfo(ds[s])
         THEN UNION {SeqRange(ds[s].registry.entries[k].labels) :
                        k \in 1..Len(ds[s].registry.entries)}
         ELSE {})
        \cup (ds[s].dirs \ {NoLabel}) : s \in DOMAIN ds})

\* LabelCategories.find(name)[0]: the position of the name, -1 for None.
Cls_find(cats, name) ==
    IF name \in SeqRange(cats) THEN IndexOf(cats, name) ELSE -1

Label(label) == [type |-> "label", label |-> label]

\* _parse_annotations mapping the reserved name like any other.
Cls_parse_annotations_no_filter(ds, path, item_id, subset_name) ==
    LET label_names == IF HasItemInfo(ds[subset_name])
                       THEN ItemInfo(ds[subset_name], item_id).labels
                       ELSE <<path.dir>>
    IN  [k \in 1..Len(label_names) |->
            Label(Cls_find(Cls_load_categories(ds), label_names[k]))]

\* YOLOv8ClassificationExtractor._parse_annotations; path is the image
\* path below the subset directory, dir its first segment.
Cls_parse_annotations(ds, path, item_id, subset_name) ==
    LET label_names == IF HasItemInfo(ds[subset_name])
                       THEN ItemInfo(ds[subset_name], item_id).labels
                       ELSE <<path.dir>>
        kept == SelectSeq(label_names, LAMBDA label : label # NoLabel)
    IN  [k \in 1..Len(kept) |->
            Label(Cls_find(Cls_load_categories(ds), kept[k]))]

MaxLabels == 2

\* An image file below a label directory.
ClsPath(dir) == [dir |-> dir, file |-> "img.jpg"]

\* The "train" directories tried: any label directories; no registry, an
\* empty one, or one that assigns up to MaxLabels names to an item that
\* sits in a label directory or in the reserved one.
ClsTrainInputs ==
    {ClsSubset(dirs, r) :
        dirs \in (SUBSET SeqRange(ClsNames)) \ {{}},
        r \in {NoRegistry, Registry(<<>>)}
              \cup {Registry(<<[id |-> "img", path |-> ClsPath(d), labels |-> l]>>) :
                       d \in {"ant", NoLabel},
                       l \in SeqsUpTo(SeqRange(ClsNames), MaxLabels)}}

\* The items _get_lazy_subset_items finds in "train": the registry's, or
\* one image in each label directory.
ClsItems(sub) ==
    IF HasItemInfo(sub)
    THEN {[id |-> sub.registry.entries[k].id, path |-> sub.registry.entries[k].path] :
             k \in 1..Len(sub.registry.entries)}
    ELSE {[id |-> d, path |-> ClsPath(d)] : d \in sub.dirs}

\* A classification dataset of two subsets, constructed, and one item of
\* "train" about to be read.
InitCls ==
    /\ variant = "yolov8_classification"
    /\ names = NamesList(<<>>)
    /\ NoFacade
    /\ NoPose
    /\ \E tr \in ClsTrainInputs :
       \E ds \in {[train |-> tr, val |-> ClsSubset({"owl"}, NoRegistry)]} :
          /\ categories = Cls_load_categories(ds)
          /\ probe \in {[op |-> "cls", ds |-> ds, item |-> it] : it \in ClsItems(tr)}

\* self._parse_annotations(image, item_id=(item_id, "train"))
ClsRead ==
    /\ probe.op = "cls"
    /\ probe' = [op |-> "cls_done", ds |-> probe.ds, item |-> probe.item,
                 out |-> Cls_parse_annotations(probe.ds, probe.item.path,
                                               probe.item.id, "train")]
    /\ UNCHANGED <<envVars, items, iter, histVars, len_result, poseVars>>

NextCls == ClsRead

SpecCls == InitCls /\ [][NextCls]_vars

(* ------------------------- one read, observed -------------------------- *)
\* One indexed item, "train"/1, with any annotation file of ParseFiles and
\* any source of the image size, under any policy, about to be read.
InitSize ==
    /\ variant \in {"yolo", "yolov8"}
    /\ categories = <<"cat", "dog">>
    /\ names = NamesList(categories)
    /\ \E f \in ParseFiles, src \in SizeSources :
          /\ image_info = [i \in Ids |-> src.info]
          /\ fs = [s \in Subsets |->
                     [i \in Ids |-> [anno |-> f, image |-> src.image]]]
    /\ policy \in Policies
    /\ items = [s \in Subsets |->
                  IF s = "train" THEN LazyIndex(s, <<1>>) ELSE <<>>]
    /\ iter = Idle
    /\ passes = <<>>
    /\ parsed = Zero
    /\ item_errors = Zero
    /\ ann_errors = Zero
    /\ len_result = __len__
    /\ NoPose
    /\ probe = [op |-> "read"]

\* self._get("1", "train"): the index after the call, and what the call
\* returned, raised, reported and asked of the image.
ReadItem ==
    /\ probe.op = "read"
    /\ \E r \in {_get(items["train"], 1, "train")} :
          /\ items' = [items EXCEPT !["train"] = r.items]
          /\ probe' = [op |-> "read_done", ret |-> r.ret, exc |-> r.exc,
                       item_reports |-> r.item_reports,
                       ann_reports |-> r.ann_reports,
                       size_used |-> r.size_used]
    /\ UNCHANGED <<envVars, iter, histVars, len_result, poseVars>>

NextSize == ReadItem

SpecSize == InitSize /\ [][NextSize]_vars

(* -------------------- detection beside side-car metadata --------------- *)
\* parse_meta_file(path).keys(): the label names dataset_meta.json lists.
parse_meta_file_keys ==
    [k \in 1..Len(meta.label_categories) |-> meta.label_categories[k].name]

\* YOLOv8DetectionExtractor._load_categories: the side-car metadata, when
\* the dataset root has one, else the manifest's names.
YOLOv8_load_categories ==
    IF meta.present THEN parse_meta_file_keys
    ELSE _load_names_from_config_file(names)

\* dataset_meta.json: absent, or listing up to MaxNames labels.
DetMetaInputs ==
    {NoMeta}
    \cup {[present |-> TRUE,
           label_categories |-> [j \in 1..k |-> LabelCat(AllNames[j], "")],
           point_categories |-> <<>>] : k \in 1..MaxNames}

\* The detection records of every label token, over the same box.
DetRecords == {<<t>> \o Tail(OkRec) : t \in LabelToks}

\* A YOLOv8 detection extractor over some manifest, with or without
\* side-car metadata, about to decode one record.
InitDet ==
    /\ variant = "yolov8"
    /\ names \in NamesInputs
    /\ meta \in DetMetaInputs
    /\ categories = YOLOv8_load_categories
    /\ NoFacade
    /\ kpt_shape = [kind |-> "missing", elems |-> <<>>]
    /\ sub_labels = [given |-> FALSE, of |-> <<>>]
    /\ pose = [status |-> "none", labels |-> <<>>, points |-> <<>>]
    /\ probe \in {[op |-> "bbox", parts |-> r, h |-> 1, w |-> 1] :
                     r \in DetRecords}

NextDet == LoadOne

SpecDet == InitDet /\ [][NextDet]_vars

(* =============================== claims ================================ *)
\* The state of the slot of item i in the index of subset s.
SlotState(s, i) ==
    IF ~DictHas(items[s], i) THEN "Evicted"
    ELSE IF DictGet(items[s], i).kind = "str" THEN "Pending"
    ELSE IF DictGet(items[s], i).kind = "DatasetItem" THEN "Ready"
    ELSE "Broken"

\* The ids a pass has yielded, in order.
OutIds(out) == [k \in 1..Len(out) |-> out[k].id]

\* Item i of subset s was yielded by a finished pass or by the running one.
Yielded(s, i) ==
    \/ \E k \in 1..Len(passes) :
          passes[k].subset = s /\ i \in SeqRange(OutIds(passes[k].out))
    \/ iter.active /\ iter.subset = s /\ i \in SeqRange(OutIds(iter.out))

\* No key occurs twice in an index.
UniqueKeys ==
    \A s \in Subsets : \A j, k \in 1..Len(items[s]) :
        items[s][j].key = items[s][k].key => j = k

\* C1: every id is Pending, Ready or Evicted (absent), and a step changes a
\* slot only from Pending to Ready, by a read that reports no item error,
\* or from Pending to Evicted, by a read that reports one: a Ready slot
\* stays Ready and an evicted id stays out of the index.
C1_SlotLifecycle ==
    [][ /\ UniqueKeys
        /\ \A s \in Subsets, i \in Ids :
            /\ SlotState(s, i) \in {"Pending", "Ready", "Evicted"}
            /\ \/ SlotState(s, i)' = SlotState(s, i)
               \/ /\ SlotState(s, i) = "Pending"
                  /\ SlotState(s, i)' = "Ready"
                  /\ parsed'[s][i] = parsed[s][i] + 1
                  /\ item_errors'[s][i] = item_errors[s][i]
               \/ /\ SlotState(s, i) = "Pending"
                  /\ SlotState(s, i)' = "Evicted"
                  /\ parsed'[s][i] = parsed[s][i] + 1
                  /\ item_errors'[s][i] = item_errors[s][i] + 1 ]_vars

\* A Ready slot and an evicted one, after the subset was passed over again.
C1_Witness ==
    /\ Len(passes) >= 2
    /\ passes[1].subset = "train" /\ passes[2].subset = "train"
    /\ \E i, j \in Ids :
          /\ SlotState("train", i) = "Ready"
          /\ SlotState("train", j) = "Evicted"
          /\ item_errors["train"][j] = 1

\* The passes over s that ran until the generator ended, oldest first.
EndedPasses(s) ==
    SelectSeq(passes, LAMBDA p : p.subset = s /\ p.end \in {"StopIteration", "RuntimeError"})

\* C2: as long as no pass was aborted by the error policy, each item's
\* annotation file is parsed at most once, and every pass that was not
\* abandoned yields the ids, in the order and with the annotations, of the
\* first such pass over the same subset.
C2_RepeatablePasses ==
    (\A k \in 1..Len(passes) : passes[k].end # "ImportFail") =>
        /\ \A s \in Subsets, i \in Ids : parsed[s][i] <= 1
        /\ \A s \in Subsets : \A k \in 1..Len(EndedPasses(s)) :
              EndedPasses(s)[k].out = EndedPasses(s)[1].out

Materializes(s, i) ==
    _parse_annotations(MakeImage(LazyPath(s, i), i), fs[s][i].anno, <<i, s>>).exc = "none"

\* C4: under a policy that tolerates item-level failures, a pass that is
\* neither abandoned nor aborted ends normally and has yielded, in index
\* order, every item of the index whose materialization succeeds.
C4_TolerantPassCompletes ==
    policy.item =>
        \A k \in 1..Len(passes) :
            passes[k].end \in {"StopIteration", "RuntimeError"} =>
                /\ passes[k].end = "StopIteration"
                /\ OutIds(passes[k].out) =
                     SelectSeq(passes[k].start,
                               LAMBDA i : Materializes(passes[k].subset, i))

\* The live entries: the (subset, id) pairs whose slot is Pending or Ready.
LiveEntries ==
    {<<s, i>> \in Subsets \X Ids : SlotState(s, i) \in {"Pending", "Ready"}}

\* The (subset, id) pairs evicted so far.
EvictedEntries ==
    {<<s, i>> \in Subsets \X Ids :
        item_errors[s][i] > 0 /\ SlotState(s, i) = "Evicted"}

\* C5: len(extractor) is the number of live entries, in every state, and a
\* call that returns another value than the last one returns the number
\* of live entries of the state it is made in.
C5_LenCountsLive ==
    [][ /\ __len__ = Cardinality(LiveEntries)
        /\ len_result' # len_result =>
              len_result' = Cardinality(LiveEntries)' ]_vars

\* len() was called after an eviction and returned the smaller count.
C5_Witness ==
    /\ EvictedEntries # {}
    /\ len_result = Cardinality(LiveEntries)
    /\ len_result < MaxItems + 1

\* The records of an annotation file that are not blank.
NonBlank(anno) == SelectSeq(anno.lines, LAMBDA l : l # <<>>)

\* A detection record of five fields, a declared integer label and four
\* fields float() accepts.
RecValid(parts) ==
    /\ Len(parts) = 5
    /\ parts[1].kind = "int"
    /\ parts[1].v \in 0..(Len(categories) - 1)
    /\ \A j \in 2..5 : parts[j].kind \in {"int", "frac"}

ValidRecs(anno) == SelectSeq(NonBlank(anno), RecValid)

InvalidRecs(anno) == SelectSeq(NonBlank(anno), LAMBDA l : ~RecValid(l))

\* The annotations of the valid records, in file order.
ValidAnnotations(anno, size) ==
    [k \in 1..Len(ValidRecs(anno)) |->
        _load_one_annotation(ValidRecs(anno)[k], size.h, size.w).val]

\* C6: for an item with a readable annotation file and a known image size,
\* every read reports each failing record it meets to
\* report_annotation_error once and nothing to report_item_error; when the
\* hook returns, the item is materialized with exactly the annotations of
\* the valid records, in file order, even if no record is valid; when it
\* raises, the read stops at the first failing record.
C6_InvalidRecordsDropped ==
    \A s \in Subsets, i \in Ids :
        LET anno == fs[s][i].anno
            size == MakeImage(LazyPath(s, i), i).size
        IN  (anno.st = "ok" /\ size.known /\ parsed[s][i] >= 1) =>
              /\ item_errors[s][i] = 0
              /\ IF policy.annotation \/ InvalidRecs(anno) = <<>>
                 THEN /\ SlotState(s, i) = "Ready"
                      /\ parsed[s][i] = 1
                      /\ DictGet(items[s], i).annotations =
                            ValidAnnotations(anno, size)
                      /\ ann_errors[s][i] = Len(InvalidRecs(anno))
                 ELSE /\ SlotState(s, i) = "Pending"
                      /\ ann_errors[s][i] = parsed[s][i]

\* A file of two records, both invalid, was read under a tolerant policy:
\* two reports, and the item is Ready with no annotation.
C6_Witness ==
    /\ policy.annotation
    /\ Len(NonBlank(fs["train"][1].anno)) = 2
    /\ ValidRecs(fs["train"][1].anno) = <<>>
    /\ ann_errors["train"][1] = 2
    /\ SlotState("train", 1) = "Ready"
    /\ DictGet(items["train"], 1).annotations = <<>>
    /\ Yielded("train", 1)

\* The zero-based rank of key t among the keys of a mapping.
RankOf(nm, t) == Cardinality({k \in SeqRange(nm.keys) : k < t})

\* The name the manifest's mapping declares for key t.
DeclaredName(nm, t) == nm.vals[CHOOSE j \in 1..Len(nm.keys) : nm.keys[j] = t]

\* C7: an integer token t resolves, against a list of N names, to t when
\* 0 <= t < N and fails as undeclared otherwise; against a mapping, to the
\* rank of t among the sorted keys when t is a key and fails as undeclared
\* otherwise.  The mapping's key-to-id map is a bijection onto 0..N-1 and
\* the category at the returned id has the name declared for key t.
C7_LabelIdResolution ==
    (probe.op = "label_done" /\ probe.tok.kind = "int") =>
        LET t == probe.tok.v
            N == Len(names.vals)
        IN  IF names.kind = "list"
            THEN IF 0 <= t /\ t < N
                 THEN probe.out.exc = "none" /\ probe.out.val = t
                 ELSE probe.out.exc = "UndeclaredLabelError"
            ELSE /\ IF t \in SeqRange(names.keys)
                    THEN /\ probe.out.exc = "none"
                         /\ probe.out.val = RankOf(names, t)
                         /\ categories[probe.out.val + 1] = DeclaredName(names, t)
                    ELSE probe.out.exc = "UndeclaredLabelError"
                 /\ DOMAIN _label_mapping(names) = SeqRange(names.keys)
                 /\ {_label_mapping(names)[k] : k \in SeqRange(names.keys)}
                      = 0..(N - 1)
                 /\ \A j, k \in SeqRange(names.keys) :
                      _label_mapping(names)[j] = _label_mapping(names)[k] => j = k

\* A key of a mapping whose keys are not in sorted order resolved to an id
\* that differs from the key and from the key's place in the manifest.
C7_Witness ==
    /\ probe.op = "label_done"
    /\ probe.tok.kind = "int"
    /\ names.kind = "dict"
    /\ names.keys # sorted(names.keys)
    /\ probe.out.exc = "none"
    /\ probe.out.val # probe.tok.v
    /\ probe.out.val # IndexOf(names.keys, probe.tok.v)

\* The value of a coordinate token, in units of 1/Den.
TokVal(tok) == IF tok.kind = "int" THEN tok.v * Den ELSE tok.v

\* C10: a record of five fields with a declared label and parsable
\* coordinates decodes to a Bbox with x = (xc - w/2) W, y = (yc - h/2) H,
\* width = w W, height = h H (in units of 1/(2 Den) pixel) and the label,
\* so that ((x + width/2)/W, (y + height/2)/H, width/W, height/H) is
\* (xc, yc, w, h); a record of another field count fails with the
\* field-count error.
C10_BboxDecode ==
    probe.op = "bbox_done" =>
        LET parts == probe.parts
            b == probe.out.val
        IN  IF Len(parts) # 5
            THEN /\ probe.out.exc = "InvalidAnnotationError"
                 /\ probe.out.msg = "field count"
            ELSE (/\ parts[1].kind = "int"
                  /\ parts[1].v \in 0..(Len(categories) - 1)
                  /\ \A j \in 2..5 : parts[j].kind # "bad") =>
                    LET xc == TokVal(parts[2])
                        yc == TokVal(parts[3])
                        w == TokVal(parts[4])
                        h == TokVal(parts[5])
                    IN  /\ probe.out.exc = "none"
                        /\ b.type = "bbox"
                        /\ b.label = parts[1].v
                        /\ b.x = (2 * xc - w) * probe.w
                        /\ b.y = (2 * yc - h) * probe.h
                        /\ b.w = 2 * w * probe.w
                        /\ b.h = 2 * h * probe.h
                        /\ 2 * b.x + b.w = 4 * xc * probe.w
                        /\ 2 * b.y + b.h = 4 * yc * probe.h

\* A record "1 0.5 1 1 0.5"-like with w # h on a non-square image decoded.
C10_Witness ==
    /\ probe.op = "bbox_done"
    /\ Len(probe.parts) = 5
    /\ probe.out.exc = "none"
    /\ probe.w # probe.h
    /\ probe.out.val.w > 0 /\ probe.out.val.h > 0
    /\ probe.out.val.x # probe.out.val.y
    /\ probe.out.val.label = 1

(* ------------------------------ C8, C9 --------------------------------- *)
\* The manifest's keypoint shape is a valid [n, v].
KptValid == _kpt_shape(kpt_shape).exc = "none"

KptN == _kpt_shape(kpt_shape).val[1]

KptV == _kpt_shape(kpt_shape).val[2]

\* A built pose extractor with a valid keypoint shape has read a record.
PoseRead == pose.status = "built" /\ probe.op = "pose_done" /\ KptValid

RightFieldCount == Len(probe.parts) = 5 + KptN * KptV

ResolvesToSkeleton == Pose_map_label_id(probe.parts[1]).exc = "none"

SkeletonId == Pose_map_label_id(probe.parts[1]).val

\* The sub-labels registered for the skeleton of the record, in order.
SubLabelsOf == pose.points[SkeletonId]

\* The fields of the i-th point (from 0) parse.
GroupParses(i) ==
    /\ probe.parts[5 + i * KptV + 1].kind # "bad"
    /\ probe.parts[5 + i * KptV + 2].kind # "bad"
    /\ KptV = 3 => probe.parts[5 + i * KptV + 3].kind = "int"

\* pt is the i-th point (from 0): fields 5+i*v and 5+i*v+1 scaled by the
\* image width and height, the visibility of field 5+i*v+2 or "visible",
\* and the label of the i-th sub-label of the skeleton.
PointDecoded(pt, i) ==
    /\ pt.type = "points"
    /\ pt.x = TokVal(probe.parts[5 + i * KptV + 1]) * PoseWidth
    /\ pt.y = TokVal(probe.parts[5 + i * KptV + 2]) * PoseHeight
    /\ pt.visibility = IF KptV = 3 THEN probe.parts[5 + i * KptV + 3].v
                       ELSE Visible
    /\ pt.label >= 0
    /\ pose.labels[pt.label + 1] =
          LabelCat(SubLabelsOf[i + 1], pose.labels[SkeletonId + 1].name)

FieldCountError ==
    probe.out.exc = "InvalidAnnotationError" /\ probe.out.msg = "field count"

\* The read produced one Skeleton of k points, each decoded from its group.
SkeletonOf(k) ==
    /\ probe.out.exc = "none"
    /\ probe.out.val.type = "skeleton"
    /\ probe.out.val.label = SkeletonId
    /\ Len(probe.out.val.points) = k
    /\ \A i \in 0..(k - 1) : PointDecoded(probe.out.val.points[i + 1], i)

\* C8, as stated: with keypoint shape [n, v] and a label token that
\* resolves to a skeleton, a record of exactly 5 + n*v fields yields one
\* Skeleton with exactly n points in declared sub-label order, the i-th
\* built from fields 5+i*v and 5+i*v+1 scaled by width and height, with the
\* visibility of field 5+i*v+2 when v = 3 and "visible" when v = 2; a
\* record of any other field count fails with a field-count error.
C8_SkeletonOfNPoints ==
    PoseRead =>
        IF RightFieldCount
        THEN (ResolvesToSkeleton /\ \A i \in 0..(KptN - 1) : GroupParses(i))
                => SkeletonOf(KptN)
        ELSE FieldCountError

\* C8, amended: the Skeleton has one point per sub-label registered for
\* the skeleton, which is n for the generated names and may be fewer for
\* the caller's or the side-car's names (the trailing groups are then not
\* read); with more than n registered sub-labels the record fails; a record
\* of any other field count fails with a field-count error.
C8_SkeletonOfRegisteredPoints ==
    PoseRead =>
        IF RightFieldCount
        THEN ResolvesToSkeleton =>
                IF Len(SubLabelsOf) > KptN THEN probe.out.exc # "none"
                ELSE IF \A i \in 0..(Len(SubLabelsOf) - 1) : GroupParses(i)
                THEN SkeletonOf(Len(SubLabelsOf))
                ELSE probe.out.exc = "InvalidAnnotationError"
        ELSE FieldCountError

\* With the caller's sub-labels, a record of three-valued points was
\* decoded into a Skeleton of fewer points than the keypoint shape counts.
C8_Witness ==
    /\ ~meta.present /\ sub_labels.given
    /\ PoseRead /\ RightFieldCount /\ ResolvesToSkeleton
    /\ KptV = 3 /\ KptN = 2 /\ Len(SubLabelsOf) = 1
    /\ SkeletonOf(1)

\* The caller's sub-label mapping covers every skeleton of the manifest
\* with at most n names each.
HintsValid ==
    sub_labels.given =>
        /\ SeqRange(_load_names_from_config_file(names)) \subseteq DOMAIN sub_labels.of
        /\ \A sk \in SeqRange(_load_names_from_config_file(names)) :
              Len(sub_labels.of[sk]) <= KptN

\* C9: construction fails whenever the keypoint shape is missing or
\* invalid or the caller's sub-label mapping omits a skeleton or gives one
\* more than n sub-labels; such a failure never surfaces at read time.
C9_ConstructionValidates ==
    /\ pose.status = "built" => (KptValid /\ HintsValid)
    /\ probe.op = "pose_done" =>
          ~(probe.out.exc = "InvalidAnnotationError" /\ probe.out.msg = "kpt_shape")

(* -------------------------------- C11 ---------------------------------- *)
\* The leading segments stripped: 1 for the "<subset>_obj/" wrapper of
\* YoloExtractor, 2 for "images/<subset>/" of YOLOv8DetectionExtractor.
Wrappers == IF variant = "yolo" THEN 1 ELSE 2

\* The path as written, without its "." segments and its "data/" prefix.
Unprefixed(path) ==
    LET clean == SelectSeq(path, LAMBDA g : g.stem # ".")
    IN  IF clean = <<>> THEN <<CurDir>>
        ELSE IF Len(clean) >= 2 /\ clean[1].stem = "data" THEN Tail(clean)
        ELSE clean

\* The path with the extension of its last segment removed.
NoExtension(path) ==
    IF path = <<>> THEN <<>>
    ELSE SubSeq(path, 1, Len(path) - 1) \o <<Seg(path[Len(path)].stem, "")>>

\* C11, as stated: name_from_path removes a leading "data/", strips
\* exactly N leading segments and drops the extension, also for the paths
\* that have only N segments or fewer once the prefix is removed.
C11_StripsWrappersAlways ==
    probe.op = "name_done" =>
        probe.out = NoExtension(SubSeq(Unprefixed(probe.path), Wrappers + 1,
                                       Len(Unprefixed(probe.path))))

\* C11, amended: the N leading segments are stripped when the path has
\* more than N segments once the prefix is removed; a path of N segments
\* or fewer only loses its extension.
C11_StripsWrappersWhenLonger ==
    probe.op = "name_done" =>
        IF Len(Unprefixed(probe.path)) > Wrappers
        THEN probe.out = NoExtension(SubSeq(Unprefixed(probe.path), Wrappers + 1,
                                            Len(Unprefixed(probe.path))))
        ELSE probe.out = NoExtension(Unprefixed(probe.path))

\* "data/images/img.jpg" under YOLOv8: two segments after the prefix, so
\* the id is "images/img".
C11_Witness ==
    /\ probe.op = "name_done" /\ variant = "yolov8"
    /\ probe.path = <<Seg("data", ""), Seg("images", ""), Seg("img", ".jpg")>>
    /\ probe.out = <<Seg("images", ""), Seg("img", "")>>

(* ------------------------------ C12, C13 ------------------------------- *)
RECURSIVE Dedup(_, _)
\* The elements of s not in seen, each once, in the order they first occur.
Dedup(s, seen) ==
    IF s = <<>> THEN <<>>
    ELSE IF Head(s) \in seen THEN Dedup(Tail(s), seen)
    ELSE <<Head(s)>> \o Dedup(Tail(s), seen \cup {Head(s)})

\* The ids derived from the listed paths, in listing order.
ListedIds == [k \in 1..Len(probe.paths) |-> probe.paths[k].stem]

\* The last listed path that derives id i.
LastPath(i) ==
    probe.paths[CHOOSE k \in 1..Len(probe.paths) :
                   /\ probe.paths[k].stem = i
                   /\ \A j \in (k + 1)..Len(probe.paths) : probe.paths[j].stem # i]

\* C12: the index holds one entry per distinct derived id, bound to the
\* path of the last occurrence of the id, in the order the ids were first
\* inserted, and materializing slots does not change that order; an id
\* leaves the index only through an item error.
C12_IndexLastWinsFirstOrder ==
    probe.op = "index" =>
        LET d == items["train"]
        IN  /\ DictKeys(d) = SelectSeq(Dedup(ListedIds, {}), LAMBDA i : DictHas(d, i))
            /\ \A i \in SeqRange(ListedIds) :
                  DictHas(d, i) \/ item_errors["train"][i] > 0
            /\ \A k \in 1..Len(d) :
                  IF d[k].val.kind = "str" THEN d[k].val = LastPath(d[k].key)
                  ELSE /\ d[k].val.kind = "DatasetItem"
                       /\ d[k].val.id = d[k].key
                       /\ d[k].val.media.dir = LastPath(d[k].key).dir

\* "train" lists train/1, train/2, val/1: id 1 stays first, is bound to
\* val/1, and has been materialized from it; id 2 is still pending.
C12_Witness ==
    /\ probe.op = "index"
    /\ probe.paths = <<LazyPath("train", 1), LazyPath("train", 2), LazyPath("val", 1)>>
    /\ DictKeys(items["train"]) = <<1, 2>>
    /\ DictGet(items["train"], 1).kind = "DatasetItem"
    /\ DictGet(items["train"], 1).media.dir = "val"
    /\ DictGet(items["train"], 2).kind = "str"

\* What the index of subset s holds for id i.
Slot(s, i) == IF DictHas(items[s], i) THEN DictGet(items[s], i) ELSE NoneItem

\* C13: a read changes at most the slot of the id it reads, in the subset
\* it reads: every slot that changes in a step belongs to the subset being
\* iterated and was read in that step, the other entries keep their order,
\* and the subset names and the category info stay as they are.
C13_ReadTouchesOneSlot ==
    [][ /\ DOMAIN items' = DOMAIN items
        /\ categories' = categories
        /\ names' = names
        /\ \A s \in Subsets :
              DictKeys(items[s])' =
                 SelectSeq(DictKeys(items[s]), LAMBDA i : DictHas(items[s], i)')
        /\ \A s \in Subsets, i \in Ids :
              Slot(s, i)' # Slot(s, i) =>
                 /\ iter.active /\ s = iter.subset
                 /\ parsed'[s][i] = parsed[s][i] + 1 ]_vars

\* Id 2 of "train" (bound to val/2, whose label file is missing) has
\* been evicted while id 1 is still in the index and the index of "val"
\* is as it was built.
C13_Witness ==
    /\ probe.op = "index"
    /\ ~DictHas(items["train"], 2) /\ item_errors["train"][2] = 1
    /\ DictHas(items["train"], 1)
    /\ items["val"] = LazyIndex("val", <<1>>)

(* -------------------------------- C14 ---------------------------------- *)
\* The labels assigned to the item read: the registry's list, or the
\* label directory the image sits in.
AssignedLabels ==
    IF HasItemInfo(probe.ds["train"])
    THEN ItemInfo(probe.ds["train"], probe.item.id).labels
    ELSE <<probe.item.path.dir>>

\* The number of elements of s before position k that are not x.
KeptBefore(s, k, x) == Cardinality({j \in 1..(k - 1) : s[j] # x})

\* C14: each assigned label other than the reserved name becomes one Label
\* whose id is the position of the name in the sorted category list, in
\* the order assigned; the reserved name yields no annotation, so an item
\* under the reserved directory has none, and no annotation's id is the
\* reserved name's.
C14_LabelsFromNames ==
    probe.op = "cls_done" =>
        /\ Len(probe.out) =
              Cardinality({k \in 1..Len(AssignedLabels) : AssignedLabels[k] # NoLabel})
        /\ \A k \in 1..Len(AssignedLabels) :
              AssignedLabels[k] # NoLabel =>
                 LET a == probe.out[KeptBefore(AssignedLabels, k, NoLabel) + 1]
                 IN  /\ a.type = "label"
                     /\ a.label \in 0..(Len(categories) - 1)
                     /\ categories[a.label + 1] = AssignedLabels[k]
        /\ \A k \in 1..Len(probe.out) :
              /\ probe.out[k].label >= 0
              /\ categories[probe.out[k].label + 1] # NoLabel
        /\ \A k \in 1..(Len(categories) - 1) :
              IndexOf(ClsNames, categories[k]) < IndexOf(ClsNames, categories[k + 1])
        /\ (~HasItemInfo(probe.ds["train"]) /\ probe.item.path.dir = NoLabel)
              => probe.out = <<>>

\* The registry assigns "owl" and the reserved name to an item: one Label,
\* for "owl", with its position in the sorted list (which here holds the
\* reserved name too, since the registry names it).
C14_Witness ==
    /\ probe.op = "cls_done"
    /\ HasItemInfo(probe.ds["train"])
    /\ AssignedLabels = <<"owl", NoLabel>>
    /\ probe.ds["train"].dirs = {"ant", NoLabel}
    /\ categories = <<"ant", "no_label", "owl">>
    /\ probe.out = <<Label(2)>>


\* The annotation file of "train"/1 and the size its image has, if any.
ReadAnno == fs["train"][1].anno

ReadSize == MakeImage(LazyPath("train", 1), 1).size

\* C15: the image size is demanded only when there is a record to scale.
\* A read of a file with a non-blank record and an image of unknown size
\* parses no record (nothing is reported to report_annotation_error), asks
\* for the size and reports once to report_item_error; the item leaves the
\* index when the hook returns and stays Pending when it raises.  A read of
\* a file without a non-blank record materializes the item with no
\* annotations and never asks for the size.
C15_SizeDemandedLazily ==
    (probe.op = "read_done" /\ ReadAnno.st = "ok") =>
        IF NonBlank(ReadAnno) # <<>>
        THEN ~ReadSize.known =>
               /\ probe.size_used
               /\ probe.ann_reports = 0
               /\ probe.item_reports = 1
               /\ probe.ret = NoneItem
               /\ IF policy.item
                  THEN probe.exc = "none" /\ SlotState("train", 1) = "Evicted"
                  ELSE probe.exc = "ImportFail"
                       /\ SlotState("train", 1) = "Pending"
        ELSE /\ ~probe.size_used
             /\ probe.exc = "none"
             /\ probe.item_reports = 0
             /\ probe.ann_reports = 0
             /\ SlotState("train", 1) = "Ready"
             /\ probe.ret = DictGet(items["train"], 1)
             /\ probe.ret.annotations = <<>>

\* A file of a blank line and an invalid record, read with no size from any
\* source: the item was evicted with one item report and no record report.
C15_Witness ==
    /\ probe.op = "read_done"
    /\ ReadAnno = File(<<<<>>, ShortRec>>)
    /\ ~ReadSize.known
    /\ policy.item
    /\ probe.size_used
    /\ probe.item_reports = 1
    /\ probe.ann_reports = 0
    /\ SlotState("train", 1) = "Evicted"


\* C16: the label id of every annotation a YOLOv8 detection record decodes
\* to is one of 0..N-1, N being the number of categories of the extractor,
\* whether these come from the manifest or from the side-car metadata.
C16_LabelIdsInRange ==
    (probe.op = "bbox_done" /\ probe.out.exc = "none") =>
        probe.out.val.label \in 0..(Len(categories) - 1)

====
